---- MODULE Spec2Model ----
(***************************************************************************)
(* State machine of src/pages/Index.tsx: the Index component's state       *)
(* (isProcessing, progress, extractedData), the onDrop gate, the           *)
(* processImage pipeline (createWorker -> recognize -> terminate, one      *)
(* atomic step per continuation between awaits), processPDF and reset.     *)
(* Texts are sequences of one-character strings.  Fractional numbers are   *)
(* scaled integers: m.progress in thousandths, confidence in hundredths.   *)
(***************************************************************************)
EXTENDS Integers, Sequences, FiniteSets, TLC

\* ---------------------------------------------------------------- bounds
MaxDrops == 3
MaxLen == 3

\* ---------------------------------------------------------------- values
Null == [null |-> TRUE]

PdfType == "application/pdf"

Files ==
  { [name |-> "a.png", type |-> "image/png"],
    [name |-> "b.jpg", type |-> "image/jpeg"],
    [name |-> "c.pdf", type |-> PdfType] }

WhiteSpace == {" ", "\n", "\t"}

Chars == {" ", "\n", "a"}

HelloWorld ==
  <<"H", "e", "l", "l", "o", " ", " ", " ", "W", "o", "r", "l", "d", "\n">>

RECURSIVE TextsOfLen(_)
TextsOfLen(n) ==
  IF n = 0 THEN {<<>>}
  ELSE {Append(t, c) : t \in TextsOfLen(n - 1), c \in Chars}

\* raw texts the engine may return when the result builder is examined
BuilderTexts == UNION {TextsOfLen(n) : n \in 0..MaxLen} \cup {HelloWorld}

\* confidences the engine may return, in hundredths: fractions in [0,1]
\* (0..100) and values on the engine's 0..100 scale (up to 10000)
BuilderConfs ==
  {h \in 0..10000 : h <= 150 \/ h % 100 \in {0, 49, 50, 51}}

\* engine outputs used when the interleavings are examined
EngineTexts == {<<"a", " ", "a", "\n">>}
EngineConfs == {8750}

Statuses == {"loading language traineddata", "recognizing text"}

\* m.progress in thousandths
ProgressInputs == {5, 1000}

ToastKinds == {"extracted", "failed", "pdf"}

\* ------------------------------------------------------- pure functions
\* Math.round(n / d) for d > 0: nearest integer, halves towards +infinity
MathRoundFloor(n, d) == n \div d
MathRound(n, d) == (2 * n + d) \div (2 * d)

IsSpace(c) == c \in WhiteSpace

RECURSIVE TrimStart(_)
TrimStart(s) ==
  IF s = <<>> THEN <<>>
  ELSE IF IsSpace(Head(s)) THEN TrimStart(Tail(s)) ELSE s

RECURSIVE TrimEnd(_)
TrimEnd(s) ==
  IF s = <<>> THEN <<>>
  ELSE IF IsSpace(s[Len(s)]) THEN TrimEnd(SubSeq(s, 1, Len(s) - 1)) ELSE s

\* String.prototype.trim
Trim(s) == TrimEnd(TrimStart(s))

\* s.split(/\s+/): the pieces between maximal runs of whitespace; a
\* separator at either end leaves an empty piece there, "" gives [""]
RECURSIVE SplitFrom(_, _, _)
SplitFrom(s, cur, inSep) ==
  IF s = <<>> THEN <<cur>>
  ELSE IF IsSpace(Head(s))
       THEN IF inSep THEN SplitFrom(Tail(s), cur, TRUE)
            ELSE <<cur>> \o SplitFrom(Tail(s), <<>>, TRUE)
       ELSE SplitFrom(Tail(s), Append(cur, Head(s)), FALSE)

Split(s) == SplitFrom(s, <<>>, FALSE)

\* pieces.filter(word => word.length > 0)
FilterNonEmpty(pieces) == SelectSeq(pieces, LAMBDA w : Len(w) > 0)

WordCountNoFilter(text) == Len(Split(Trim(text)))
WordCount(text) == Len(FilterNonEmpty(Split(Trim(text))))

\* the ExtractedData record of lines 43-50 (the timestamp is not modelled)
BuildResult(file, text, conf) ==
  [ text       |-> Trim(text),
    confidence |-> MathRound(conf, 100),
    fileName   |-> file.name,
    fileType   |-> file.type,
    wordCount  |-> WordCount(text) ]

\* ---------------------------------------------------------------- state
VARIABLES
  isProcessing,   \* useState(false)
  progress,       \* useState(0)
  extractedData,  \* useState(null)
  inv,            \* the processImage invocations, in the order they started
  toasts,         \* notices emitted so far, per kind
  drops,          \* number of onDrop calls so far
  pdfCalls        \* number of processPDF calls so far

vars == <<isProcessing, progress, extractedData, inv, toasts, drops, pdfCalls>>

InFlightPcs == {"createWorker", "recognize", "terminate"}

InFlight == {i \in 1..Len(inv) : inv[i].pc \in InFlightPcs}

Init ==
  /\ isProcessing = FALSE
  /\ progress = 0
  /\ extractedData = Null
  /\ inv = <<>>
  /\ toasts = [k \in ToastKinds |-> 0]
  /\ drops = 0
  /\ pdfCalls = 0

Toast(kind) == toasts' = [toasts EXCEPT ![kind] = @ + 1]

\* ------------------------------------------------------------- processPDF
processPDFSilent(file) ==
  /\ UNCHANGED <<isProcessing, progress, extractedData, inv, toasts>>
processPDF(file) ==
  /\ Toast("pdf")
  /\ UNCHANGED <<isProcessing, progress, extractedData, inv>>

\* ----------------------------------------------------------- processImage
\* lines 25-30: up to the first await
processImageStart(file) ==
  /\ isProcessing' = TRUE
  /\ progress' = 0
  /\ inv' = Append(inv, [ pc              |-> "createWorker",
                          file            |-> file,
                          acquired        |-> FALSE,
                          terminateCalled |-> FALSE,
                          rawText         |-> <<>>,
                          rawConf         |-> 0,
                          result          |-> Null,
                          outcome         |-> "none",
                          concurrent      |-> InFlight ])
  /\ UNCHANGED <<extractedData, toasts>>

\* ----------------------------------------------------------------- onDrop
onDrop(acceptedFiles) ==
  /\ drops < MaxDrops
  /\ drops' = drops + 1
  /\ IF acceptedFiles = <<>>
     THEN UNCHANGED <<isProcessing, progress, extractedData, inv, toasts, pdfCalls>>
     ELSE LET file == acceptedFiles[1] IN
          IF file.type = PdfType
          THEN /\ pdfCalls' = pdfCalls + 1
               /\ processPDF(file)
          ELSE /\ UNCHANGED pdfCalls
               /\ processImageStart(file)

\* lines 31-35: the logger callback of an engine that is loading or recognizing
logger(i, status, p) ==
  /\ i \in 1..Len(inv)
  /\ inv[i].pc \in {"createWorker", "recognize"}
  /\ IF status = "recognizing text"
     THEN progress' = MathRound(p, 10)
     ELSE UNCHANGED progress
  /\ UNCHANGED <<isProcessing, extractedData, inv, toasts, drops, pdfCalls>>

\* lines 54-60: catch, then finally
CatchFinallyKeepProgress(i) ==
  /\ inv' = [inv EXCEPT ![i] = [@ EXCEPT !.pc = "done",
                                         !.outcome = "failure"]]
  /\ Toast("failed")
  /\ isProcessing' = FALSE
  /\ UNCHANGED <<progress, extractedData, drops, pdfCalls>>
CatchFinallyClearData(i) ==
  /\ inv' = [inv EXCEPT ![i] = [@ EXCEPT !.pc = "done",
                                         !.outcome = "failure"]]
  /\ Toast("failed")
  /\ isProcessing' = FALSE
  /\ progress' = 0
  /\ extractedData' = Null
  /\ UNCHANGED <<drops, pdfCalls>>
CatchFinally(i) ==
  /\ inv' = [inv EXCEPT ![i] = [@ EXCEPT !.pc = "done",
                                         !.outcome = "failure"]]
  /\ Toast("failed")
  /\ isProcessing' = FALSE
  /\ progress' = 0
  /\ UNCHANGED <<extractedData, drops, pdfCalls>>

\* line 30 resolves, line 38 calls worker.recognize
CreateWorkerResolve(i) ==
  /\ i \in 1..Len(inv)
  /\ inv[i].pc = "createWorker"
  /\ inv' = [inv EXCEPT ![i] = [@ EXCEPT !.pc = "recognize", !.acquired = TRUE]]
  /\ UNCHANGED <<isProcessing, progress, extractedData, toasts, drops, pdfCalls>>

\* line 30 throws
CreateWorkerReject(i) ==
  /\ i \in 1..Len(inv)
  /\ inv[i].pc = "createWorker"
  /\ CatchFinally(i)

\* line 38 resolves, line 39 calls worker.terminate
RecognizeResolve(i, text, conf) ==
  /\ i \in 1..Len(inv)
  /\ inv[i].pc = "recognize"
  /\ inv' = [inv EXCEPT ![i] = [@ EXCEPT !.pc = "terminate",
                                         !.terminateCalled = TRUE,
                                         !.rawText = text,
                                         !.rawConf = conf]]
  /\ UNCHANGED <<isProcessing, progress, extractedData, toasts, drops, pdfCalls>>

\* line 38 throws: control goes to catch, line 39 is skipped
RecognizeReject(i) ==
  /\ i \in 1..Len(inv)
  /\ inv[i].pc = "recognize"
  /\ CatchFinally(i)

\* line 39 resolves, lines 41-53 build and publish the result, then finally
TerminateResolveIfLatest(i) ==
  /\ i \in 1..Len(inv)
  /\ inv[i].pc = "terminate"
  /\ LET result == BuildResult(inv[i].file, inv[i].rawText, inv[i].rawConf) IN
     /\ inv' = [inv EXCEPT ![i] = [@ EXCEPT !.pc = "done",
                                            !.outcome = "success",
                                            !.result = result]]
     /\ extractedData' = IF i = Len(inv) THEN result ELSE extractedData
  /\ Toast("extracted")
  /\ isProcessing' = FALSE
  /\ progress' = 0
  /\ UNCHANGED <<drops, pdfCalls>>
TerminateResolveKeepFlag(i) ==
  /\ i \in 1..Len(inv)
  /\ inv[i].pc = "terminate"
  /\ LET result == BuildResult(inv[i].file, inv[i].rawText, inv[i].rawConf) IN
     /\ inv' = [inv EXCEPT ![i] = [@ EXCEPT !.pc = "done",
                                            !.outcome = "success",
                                            !.result = result]]
     /\ extractedData' = result
  /\ Toast("extracted")
  /\ progress' = 0
  /\ UNCHANGED <<isProcessing, drops, pdfCalls>>
TerminateResolve(i) ==
  /\ i \in 1..Len(inv)
  /\ inv[i].pc = "terminate"
  /\ LET result == BuildResult(inv[i].file, inv[i].rawText, inv[i].rawConf) IN
     /\ inv' = [inv EXCEPT ![i] = [@ EXCEPT !.pc = "done",
                                            !.outcome = "success",
                                            !.result = result]]
     /\ extractedData' = result
  /\ Toast("extracted")
  /\ isProcessing' = FALSE
  /\ progress' = 0
  /\ UNCHANGED <<drops, pdfCalls>>

\* line 39 throws
TerminateReject(i) ==
  /\ i \in 1..Len(inv)
  /\ inv[i].pc = "terminate"
  /\ CatchFinally(i)

\* ------------------------------------------------------------------ reset
\* the "New Upload" button exists only while a result is shown (line 167)
resetAll ==
  /\ extractedData # Null
  /\ extractedData' = Null
  /\ progress' = 0
  /\ isProcessing' = FALSE
  /\ UNCHANGED <<inv, toasts, drops, pdfCalls>>
reset ==
  /\ extractedData # Null
  /\ extractedData' = Null
  /\ progress' = 0
  /\ UNCHANGED <<isProcessing, inv, toasts, drops, pdfCalls>>

\* ---------------------------------------------------------- specifications
\* the invocations suspended at the await named pc
Awaiting(pc) == {i \in 1..Len(inv) : inv[i].pc = pc}

Next ==
  \/ onDrop(<<>>)
  \/ \E f \in Files : onDrop(<<f>>)
  \/ \E i \in Awaiting("createWorker") \cup Awaiting("recognize") :
       \E s \in Statuses, p \in ProgressInputs : logger(i, s, p)
  \/ \E i \in Awaiting("createWorker") : CreateWorkerResolve(i)
  \/ \E i \in Awaiting("createWorker") : CreateWorkerReject(i)
  \/ \E i \in Awaiting("recognize") :
       \E t \in EngineTexts, c \in EngineConfs : RecognizeResolve(i, t, c)
  \/ \E i \in Awaiting("recognize") : RecognizeReject(i)
  \/ \E i \in Awaiting("terminate") : TerminateResolve(i)
  \/ \E i \in Awaiting("terminate") : TerminateReject(i)
  \/ reset

Spec == Init /\ [][Next]_vars

\* One image at a time, the engine returning any text and confidence of the
\* builder's input sets: the specification the result builder is examined under.
NextBuilder ==
  \/ \E f \in Files : Len(inv) = 0 /\ onDrop(<<f>>)
  \/ \E i \in Awaiting("createWorker") : CreateWorkerResolve(i)
  \/ \E i \in Awaiting("recognize") :
       \E t \in BuilderTexts, c \in BuilderConfs : RecognizeResolve(i, t, c)
  \/ \E i \in Awaiting("terminate") : TerminateResolve(i)

SpecBuilder == Init /\ [][NextBuilder]_vars

\* ------------------------------------------------------------ properties
Started == 1..Len(inv)

Done(i) == inv[i].pc = "done"

Succeeded(i) == Done(i) /\ inv[i].outcome = "success"

Failed(i) == Done(i) /\ inv[i].outcome = "failure"

\* invocations i and j were in flight at the same time
Overlapped(i, j) == i \in inv[j].concurrent \/ j \in inv[i].concurrent

\* number of maximal runs of non-whitespace characters of t
RunCount(t) ==
  Cardinality({k \in 1..Len(t) : ~IsSpace(t[k]) /\ (k = 1 \/ IsSpace(t[k - 1]))})

AllSpace(t) == \A k \in 1..Len(t) : IsSpace(t[k])

\* r is the integer nearest to h / 100, a half going up
NearestToHundredths(r, h) == 100 * r - 50 <= h /\ h < 100 * r + 50

\* C1: every finished invocation that acquired an engine instance has had
\* worker.terminate called on it, whether recognize succeeded or threw.
C1_EngineAlwaysReleased ==
  \A i \in Started : (Done(i) /\ inv[i].acquired) => inv[i].terminateCalled

\* C2: the step in which an invocation fails (createWorker, recognize or
\* terminate throwing) ends with progress = 0 and isProcessing = FALSE,
\* whatever the state before and whatever else is in flight.
C2_FailureResetsProgress ==
  [][\A i \in Started :
       (inv[i].pc \in InFlightPcs /\ inv'[i].pc = "done" /\ inv'[i].outcome = "failure")
         => (progress' = 0 /\ isProcessing' = FALSE)]_vars

C2_Witness ==
  \E i \in Started : \E j \in Started :
    /\ Failed(i) /\ inv[i].acquired
    /\ j \in InFlight /\ i \in inv[j].concurrent
    /\ progress = 0 /\ ~isProcessing

\* C3: a drop of an application/pdf file leaves extractedData, isProcessing
\* and progress unchanged, starts no invocation (acquires no engine), and
\* emits exactly one failure notice (the pdf notice) and no other notice.
C3_PdfDropChangesNothing ==
  [][pdfCalls' = pdfCalls + 1 =>
       /\ extractedData' = extractedData
       /\ isProcessing' = isProcessing
       /\ progress' = progress
       /\ inv' = inv
       /\ toasts' = [toasts EXCEPT !["pdf"] = @ + 1]]_vars

C3_Witness ==
  /\ pdfCalls = 1 /\ toasts["pdf"] = 1
  /\ extractedData # Null
  /\ InFlight # {} /\ isProcessing /\ progress > 0

\* C4: reset (the step that discards the displayed result without any
\* invocation finishing) yields extractedData = null and progress = 0 and
\* changes nothing else: isProcessing, the invocations in flight, the notices.
C4_ResetClearsResultOnly ==
  [][(inv' = inv /\ extractedData # Null /\ extractedData' # extractedData) =>
       /\ extractedData' = Null
       /\ progress' = 0
       /\ isProcessing' = isProcessing
       /\ toasts' = toasts
       /\ drops' = drops
       /\ pdfCalls' = pdfCalls]_vars

C4_Witness ==
  /\ extractedData = Null /\ progress = 0
  /\ \E i \in Started : Succeeded(i)
  /\ InFlight # {} /\ isProcessing

\* C5: when two overlapping invocations both succeed, the one that completes
\* last sets extractedData, whichever of the two was started first.
C5_LastCompletedWins ==
  [][\A i \in Started : \A j \in Started :
       ( /\ i # j /\ Overlapped(i, j)
         /\ Succeeded(j)
         /\ inv[i].pc = "terminate"
         /\ inv'[i].pc = "done" /\ inv'[i].outcome = "success" )
         => extractedData' = inv'[i].result]_vars

\* the older drop completed last and its result replaced the newer one's
C5_Witness ==
  /\ Len(inv) = 2
  /\ 1 \in inv[2].concurrent
  /\ Succeeded(1) /\ Succeeded(2)
  /\ inv[1].result # inv[2].result
  /\ extractedData = inv[1].result

\* C6 as stated: an engine confidence that is a fraction in [0,1] (rawConf
\* hundredths, 0..100) gives the confidence rawConf percent, and
\* "Hello   World\n" with confidence 0.87 gives confidence 87 and wordCount 2.
C6_FractionBecomesPercentage ==
  \A i \in Started :
    Succeeded(i) =>
      /\ inv[i].rawConf \in 0..100 =>
           /\ inv[i].result.confidence \in 0..100
           /\ inv[i].result.confidence = inv[i].rawConf
      /\ (inv[i].rawText = HelloWorld /\ inv[i].rawConf = 87) =>
           /\ inv[i].result.text = SubSeq(HelloWorld, 1, 13)
           /\ inv[i].result.confidence = 87
           /\ inv[i].result.wordCount = 2

\* C6 amended: an engine confidence on the engine's 0..100 scale (rawConf
\* hundredths, 0..10000) gives the integer nearest to it, which lies in
\* [0,100]; "Hello   World\n" with confidence 87 gives text "Hello   World",
\* confidence 87 and wordCount 2.
C6_ConfidenceRoundedToNearest ==
  \A i \in Started :
    Succeeded(i) =>
      /\ inv[i].rawConf \in 0..10000 =>
           /\ inv[i].result.confidence \in 0..100
           /\ NearestToHundredths(inv[i].result.confidence, inv[i].rawConf)
      /\ (inv[i].rawText = HelloWorld /\ inv[i].rawConf = 8700) =>
           /\ inv[i].result.text = SubSeq(HelloWorld, 1, 13)
           /\ inv[i].result.confidence = 87
           /\ inv[i].result.wordCount = 2

C6_Witness ==
  \E i \in Started :
    /\ Succeeded(i)
    /\ inv[i].rawText = HelloWorld /\ inv[i].rawConf = 8700
    /\ extractedData = inv[i].result
    /\ extractedData.confidence = 87 /\ extractedData.wordCount = 2

\* C7: the result's wordCount is the number of maximal runs of
\* non-whitespace characters of the trimmed text, and it is 0 exactly when
\* the raw text is empty or whitespace-only (raw "" gives text "" and 0).
C7_WordCountIsRunCount ==
  \A i \in Started :
    Succeeded(i) =>
      /\ inv[i].result.wordCount = RunCount(inv[i].result.text)
      /\ inv[i].result.wordCount = RunCount(inv[i].rawText)
      /\ (inv[i].result.wordCount = 0) <=> AllSpace(inv[i].rawText)
      /\ (inv[i].result.wordCount = 0) <=> (inv[i].result.text = <<>>)
      /\ inv[i].rawText = <<>> => inv[i].result.text = <<>>

C7_Witness ==
  \E i \in Started :
    /\ Succeeded(i)
    /\ inv[i].rawText = <<"\n", " ", " ">>
    /\ extractedData = inv[i].result
    /\ extractedData.wordCount = 0 /\ extractedData.text = <<>>

\* C8: a failing invocation leaves extractedData as it was and emits exactly
\* one generic failure notice and no other; extractedData is set to a
\* non-null value only by a succeeding invocation, with one success notice.
C8_FailureKeepsResult ==
  [][/\ \A i \in Started :
          (inv[i].pc \in InFlightPcs /\ inv'[i].pc = "done" /\ inv'[i].outcome = "failure")
            => /\ extractedData' = extractedData
               /\ toasts' = [toasts EXCEPT !["failed"] = @ + 1]
     /\ (extractedData' # extractedData /\ extractedData' # Null)
          => /\ \E i \in Started :
                  /\ inv[i].pc = "terminate"
                  /\ inv'[i].pc = "done" /\ inv'[i].outcome = "success"
                  /\ extractedData' = inv'[i].result
             /\ toasts' = [toasts EXCEPT !["extracted"] = @ + 1]]_vars

C8_Witness ==
  \E i \in Started : \E j \in Started :
    /\ Succeeded(i) /\ Failed(j) /\ i < j
    /\ inv[j].terminateCalled
    /\ extractedData = inv[i].result
    /\ toasts["failed"] = 1 /\ toasts["extracted"] = 1

\* C9: the indicator is shown only while some invocation is in flight.
C9_ProcessingImpliesInFlight == isProcessing => InFlight # {}

C9_Witness ==
  /\ isProcessing /\ InFlight # {}
  /\ \E i \in Started : Succeeded(i)
  /\ \E j \in Started : Failed(j)

\* C10: while some invocation is in flight the indicator is shown, also when
\* invocations overlap and one finishes before the others.
C10_InFlightImpliesProcessing == InFlight # {} => isProcessing

====
